---- MODULE Spec2Model ----
(***************************************************************************)
(* Model of the evolution particle system (ParticleSystem) and of the      *)
(* evolution camera (EvolutionCamera).                                     *)
(*                                                                         *)
(* JavaScript numbers are modelled in fixed point:                         *)
(*   milli  (1/1000)     velocity, decay, size, colour, deltaTime, random  *)
(*   micro  (1/1000000)  position and life of a particle, so that          *)
(*                       velocity*deltaTime and decay*deltaTime are exact  *)
(*   mrad   (1/1000 rad) angles                                            *)
(* Math.sin / Math.cos are modelled by Bhaskara's rational approximation.  *)
(***************************************************************************)
EXTENDS Integers, Sequences, FiniteSets, TLC

VARIABLES
    particles,      \* this.particles: the store, oldest first
    rng,            \* number of Math.random() calls made so far (the generator's state)
    nextId,         \* serial number given to the next pushed particle (history)
    emits,          \* number of emit calls made so far (history, bounds the run)
    pending,        \* particles pushed since the last update or clear (history)
    lastOp,         \* the last ParticleSystem call: "new", "emit", "update", "clear"
    lastPhase,      \* phase argument of the last emitEvolutionParticles call, if it was the last call
    lastCount,      \* count argument of the last emit call, if it was the last call
    lastDt,         \* deltaTime of the last update call
    lastExpired,    \* particles removed for life <= 0 by the last update
    lastDropped,    \* particles removed by the size limit in the last update
    camera,         \* the EvolutionCamera object, its fields as a record
    camOp,          \* the last EvolutionCamera call: "new", "start", "shake", "update"
    hasShaken       \* some update so far added a shake offset to the position (history)

pvars == <<particles, rng, nextId, emits, pending, lastOp, lastPhase, lastCount, lastDt,
          lastExpired, lastDropped>>

cvars == <<camera, camOp, hasShaken>>

vars == <<pvars, cvars>>

----------------------------------------------------------------------------
(* Bounds of the model *)

\* emit calls in one run
MaxEmits == 2
\* the small values of the count argument are 0..MaxCount
MaxCount == 3
\* a count whose 'peak' emission alone overflows the store
BigCount == 200
\* the generator starts after 0..MaxSeed draws
MaxSeed == 1

Counts == 0..MaxCount
BigCounts == {BigCount, 3 * BigCount}
\* the count of the burst scenario, emitted at the origin
BurstCounts == {10}
\* deltaTime values, in milliseconds
DtVals == {0, 600, 1250}
BigDts == {0, 600}
\* the deltaTime of the animation loop's frames
FrameDts == {600}
\* pokemonPosition values, in micro units
Origin == <<0, 0, 0>>
Centers == {<<1000000, -500000, 2000000>>}
EvolutionPhases == {"build-up", "peak", "morphing", "settling"}
PhaseArgs == EvolutionPhases \cup {"idle"}

\* shakeTime at which the camera run stops advancing time, in milli
MaxShakeTime == 1600
\* progress values, in milli
Progresses == {0, 250, 1000}
\* deltaTime values of the camera, in milliseconds
CamDts == {0, 16}
\* intensities passed to shake(), in milli; 200 is the default argument
ShakeArgs == {200, 8}

----------------------------------------------------------------------------
(* Numbers *)

Pi == 3142
TwoPi == 6283

\* sin of an angle in [0, Pi] mrad, in milli
SinHalf(x) ==
    LET t == x * (Pi - x)
        den == (5 * Pi * Pi - 4 * t) \div 1000
    IN (16 * t) \div den

\* Math.sin: argument in mrad, result in milli
Sin(x) ==
    LET y == x % (2 * Pi)
    IN IF y <= Pi THEN SinHalf(y) ELSE 0 - SinHalf(y - Pi)

\* Math.cos: argument in mrad, result in milli
Cos(x) == Sin(x + Pi \div 2)

\* Math.random(): the n-th draw of the generator, in milli, 0 <= r < 1000
Random(n) ==
    LET m == n % 1009
    IN (((m * m * 31 + m * 7919 + 389) % 1009) * 1000) \div 1009

----------------------------------------------------------------------------
(* Emitters.  count2 is the count argument in halves (count = count2 / 2), *)
(* since emitEvolutionParticles passes count / 2, which need not be whole. *)

\* number of passes of `for (let i = 0; i < count; i++)`
Iterations(count2) == IF count2 <= 0 THEN 0 ELSE (count2 + 1) \div 2

Sparkle(center, i, drawn) ==
    LET r(k) == Random(drawn + 9 * i + k)
        angle == (r(0) * TwoPi) \div 1000
        radius == 1000 + r(1) * 2
        height == r(2) * 3
    IN [ id |-> 0,
         position |-> << center[1] + Cos(angle) * radius,
                         center[2] + height * 1000,
                         center[3] + Sin(angle) * radius >>,
         velocity |-> << Cos(angle) \div 2,
                         ((r(3) - 500) * 3) \div 10,
                         Sin(angle) \div 2 >>,
         color |-> << 900 + r(4) \div 10, 700 + (r(5) * 3) \div 10,
                      200 + (r(6) * 3) \div 10, 1000 >>,
         size |-> 3000 + r(7) * 5,
         life |-> 1000000,
         decay |-> 500 + r(8) \div 2,
         type |-> "sparkle",
         pulse |-> 0 ]

emitOrbitingSparkles(ps, center, count2, drawn) ==
    ps \o [k \in 1..Iterations(count2) |-> Sparkle(center, k - 1, drawn)]

Burst(center, i, drawn) ==
    LET r(k) == Random(drawn + 7 * i + k)
        theta == (r(0) * TwoPi) \div 1000
        phi == (r(1) * Pi) \div 1000
        speed == 2000 + r(2) * 3
    IN [ id |-> 0,
         position |-> center,
         velocity |-> << (((Sin(phi) * Cos(theta)) \div 1000) * speed) \div 1000,
                         (((Sin(phi) * Sin(theta)) \div 1000) * speed) \div 1000,
                         (Cos(phi) * speed) \div 1000 >>,
         color |-> << 800 + r(3) \div 5, 400 + (r(4) * 2) \div 5, 1000, 1000 >>,
         size |-> 4000 + r(5) * 6,
         life |-> 1000000,
         decay |-> 1500 + r(6),
         type |-> "burst",
         pulse |-> 0 ]

emitExplosion(ps, center, count2, drawn) ==
    ps \o [k \in 1..Iterations(count2) |-> Burst(center, k - 1, drawn)]

Helix(center, i, count2, drawn) ==
    LET r(k) == Random(drawn + 3 * i + k)
        t == (i * 2000) \div count2
        angle == (t * 25133) \div 1000
        radius == 500
        height == t * 4 - 2000
    IN [ id |-> 0,
         position |-> << center[1] + Cos(angle) * radius,
                         center[2] + height * 1000,
                         center[3] + Sin(angle) * radius >>,
         velocity |-> << 0, 1500, 0 >>,
         color |-> << 300 + (r(0) * 3) \div 10, 600 + (r(1) * 2) \div 5, 1000, 1000 >>,
         size |-> 3000 + r(2) * 3,
         life |-> 1000000,
         decay |-> 800,
         type |-> "helix",
         pulse |-> 0 ]

emitDNAHelix(ps, center, count2, drawn) ==
    ps \o [k \in 1..Iterations(count2) |-> Helix(center, k - 1, count2, drawn)]

Orb(center, i, count2, drawn) ==
    LET r(k) == Random(drawn + 6 * i + k)
        angle == (((i * 2000) \div count2) * TwoPi) \div 1000
        radius == 2000
    IN [ id |-> 0,
         position |-> << center[1] + Cos(angle) * radius,
                         center[2] + 1000000,
                         center[3] + Sin(angle) * radius >>,
         velocity |-> << 0 - (Cos(angle) * 4) \div 5,
                         (r(0) - 500) \div 5,
                         0 - (Sin(angle) * 4) \div 5 >>,
         color |-> << 600 + r(1) \div 5, 300 + (r(2) * 3) \div 10,
                      900 + r(3) \div 10, 1000 >>,
         size |-> 5000 + r(4) * 8,
         life |-> 1000000,
         decay |-> 600,
         type |-> "orb",
         pulse |-> (r(5) * TwoPi) \div 1000 ]

emitPsychicOrbs(ps, center, count2, drawn) ==
    ps \o [k \in 1..Iterations(count2) |-> Orb(center, k - 1, count2, drawn)]

Settle(center, i, drawn) ==
    LET r(k) == Random(drawn + 9 * i + k)
    IN [ id |-> 0,
         position |-> << center[1] + (r(0) - 500) * 3000,
                         center[2] + r(1) * 3000,
                         center[3] + (r(2) - 500) * 3000 >>,
         velocity |-> << (r(3) - 500) \div 5,
                         0 - 300 - r(4) \div 2,
                         (r(5) - 500) \div 5 >>,
         color |-> << 1000, 900 + r(6) \div 10, 500 + r(7) \div 2, 1000 >>,
         size |-> 2000 + r(8) * 3,
         life |-> 1000000,
         decay |-> 700,
         type |-> "settle",
         pulse |-> 0 ]

emitSettlingSparkles(ps, center, count2, drawn) ==
    ps \o [k \in 1..Iterations(count2) |-> Settle(center, k - 1, drawn)]

\* the fixed count of the helix emitted at the peak
HelixCount == 30

\* emitEvolutionParticles with the burst of the peak emitted with count * 2
emitEvolutionParticlesTwice(ps, phase, center, count, drawn) ==
    CASE phase = "build-up" -> emitOrbitingSparkles(ps, center, 2 * count, drawn)
      [] phase = "peak" ->
            emitDNAHelix(emitExplosion(ps, center, 2 * (count * 2), drawn),
                         center, 2 * HelixCount, drawn + 7 * Iterations(2 * (count * 2)))
      [] phase = "morphing" -> emitPsychicOrbs(ps, center, 2 * count, drawn)
      [] phase = "settling" -> emitSettlingSparkles(ps, center, count, drawn)
      [] OTHER -> ps

emitEvolutionParticles(ps, phase, center, count, drawn) ==
    CASE phase = "build-up" -> emitOrbitingSparkles(ps, center, 2 * count, drawn)
      [] phase = "peak" ->
            emitDNAHelix(emitExplosion(ps, center, 2 * (count * 3), drawn),
                         center, 2 * HelixCount, drawn + 7 * Iterations(2 * (count * 3)))
      [] phase = "morphing" -> emitPsychicOrbs(ps, center, 2 * count, drawn)
      [] phase = "settling" -> emitSettlingSparkles(ps, center, count, drawn)
      [] OTHER -> ps

\* Math.random() calls made by one pass of each emitter's loop
DrawsPerParticle(type) ==
    CASE type = "sparkle" -> 9
      [] type = "burst" -> 7
      [] type = "helix" -> 3
      [] type = "orb" -> 6
      [] type = "settle" -> 9

\* Math.random() calls made for the particles of ps after the first n
Draws(ps, n) ==
    LET made(type) == Cardinality({k \in (n + 1)..Len(ps) : ps[k].type = type})
    IN made("sparkle") * DrawsPerParticle("sparkle")
       + made("burst") * DrawsPerParticle("burst")
       + made("helix") * DrawsPerParticle("helix")
       + made("orb") * DrawsPerParticle("orb")
       + made("settle") * DrawsPerParticle("settle")

----------------------------------------------------------------------------
(* update *)

maxParticles == 500

\* Array.prototype.splice(start, deleteCount), start counted from 0
Splice(ps, start, deleteCount) ==
    LET n == Len(ps)
        d == IF deleteCount < 0 THEN 0
             ELSE IF start + deleteCount > n THEN n - start ELSE deleteCount
    IN SubSeq(ps, 1, start) \o SubSeq(ps, start + d + 1, n)

\* UpdateParticle with the sign of the life update flipped: life += decay * deltaTime
UpdateParticleLifeUp(p, dt) ==
    LET pos == << p.position[1] + p.velocity[1] * dt,
                  p.position[2] + p.velocity[2] * dt,
                  p.position[3] + p.velocity[3] * dt >>
        vel == IF p.type = "burst" \/ p.type = "settle"
               THEN [p.velocity EXCEPT ![2] = @ - (196 * dt) \div 100]
               ELSE p.velocity
        life == p.life + p.decay * dt
        pulse == IF p.type = "orb" THEN p.pulse + dt * 5 ELSE p.pulse
        size == IF p.type = "orb" THEN 5000 + Sin(pulse) * 3 ELSE p.size
        color == IF p.type = "sparkle"
                 THEN [p.color EXCEPT ![4] = 500 + Sin(life \div 50) \div 2]
                 ELSE p.color
    IN [p EXCEPT !.position = pos, !.velocity = vel, !.life = life,
                 !.pulse = pulse, !.size = size, !.color = color]

\* UpdateParticle with gravity not scaled by deltaTime: velocity[1] -= 9.8 * 0.2
UpdateParticleGravity(p, dt) ==
    LET pos == << p.position[1] + p.velocity[1] * dt,
                  p.position[2] + p.velocity[2] * dt,
                  p.position[3] + p.velocity[3] * dt >>
        vel == IF p.type = "burst" \/ p.type = "settle"
               THEN [p.velocity EXCEPT ![2] = @ - 1960]
               ELSE p.velocity
        life == p.life - p.decay * dt
        pulse == IF p.type = "orb" THEN p.pulse + dt * 5 ELSE p.pulse
        size == IF p.type = "orb" THEN 5000 + Sin(pulse) * 3 ELSE p.size
        color == IF p.type = "sparkle"
                 THEN [p.color EXCEPT ![4] = 500 + Sin(life \div 50) \div 2]
                 ELSE p.color
    IN [p EXCEPT !.position = pos, !.velocity = vel, !.life = life,
                 !.pulse = pulse, !.size = size, !.color = color]

\* the body of update's loop, up to the removal test
UpdateParticle(p, dt) ==
    LET pos == << p.position[1] + p.velocity[1] * dt,
                  p.position[2] + p.velocity[2] * dt,
                  p.position[3] + p.velocity[3] * dt >>
        vel == IF p.type = "burst" \/ p.type = "settle"
               THEN [p.velocity EXCEPT ![2] = @ - (196 * dt) \div 100]
               ELSE p.velocity
        life == p.life - p.decay * dt
        pulse == IF p.type = "orb" THEN p.pulse + dt * 5 ELSE p.pulse
        size == IF p.type = "orb" THEN 5000 + Sin(pulse) * 3 ELSE p.size
        color == IF p.type = "sparkle"
                 THEN [p.color EXCEPT ![4] = 500 + Sin(life \div 50) \div 2]
                 ELSE p.color
    IN [p EXCEPT !.position = pos, !.velocity = vel, !.life = life,
                 !.pulse = pulse, !.size = size, !.color = color]

Dead(p) == p.life <= 0

\* the element of a one-element set
The(S) == CHOOSE x \in S : TRUE

\* one pass of the loop body at index i (counted from 0)
Pass(ps, i, dt) ==
    The({IF Dead(p) THEN Splice(ps, i, 1) ELSE [ps EXCEPT ![i + 1] = p] :
            p \in {UpdateParticle(ps[i + 1], dt)}})

\* n consecutive passes of `for (...; i >= 0; i--)`, the first at index i:
\* the passes at i, i-1, ..., i-n+1, each on the array the one before left
RECURSIVE Passes(_, _, _, _)
Passes(ps, i, n, dt) ==
    IF n <= 0 THEN ps
    ELSE IF n = 1 THEN Pass(ps, i, dt)
    ELSE LET h == n \div 2
         IN The({Passes(first, i - h, n - h, dt) : first \in {Passes(ps, i, h, dt)}})

\* the loop run forwards: `for (let i = 0; i < this.particles.length; i++)`
RECURSIVE ForwardPasses(_, _, _, _)
ForwardPasses(ps, i, n, dt) ==
    IF n <= 0 \/ i >= Len(ps) THEN ps
    ELSE IF n = 1 THEN Pass(ps, i, dt)
    ELSE LET h == n \div 2
         IN The({ForwardPasses(first, i + h, n - h, dt) :
                    first \in {ForwardPasses(ps, i, h, dt)}})

UpdateParticlesForward(ps, dt) == ForwardPasses(ps, 0, Len(ps), dt)

\* the loop started one index too low: `let i = this.particles.length - 2`
UpdateParticlesSkipLast(ps, dt) == Passes(ps, Len(ps) - 2, Len(ps) - 1, dt)

\* `for (let i = this.particles.length - 1; i >= 0; i--)`
UpdateParticles(ps, dt) == Passes(ps, Len(ps) - 1, Len(ps), dt)

\* Limit keeping one particle too many
LimitOffByOne(ps) ==
    IF Len(ps) > maxParticles + 1 THEN Splice(ps, 0, Len(ps) - maxParticles - 1) ELSE ps

\* Limit never dropping anything
LimitNone(ps) == ps

\* Limit dropping the newest entries instead of the oldest
LimitNewest(ps) ==
    IF Len(ps) > maxParticles THEN Splice(ps, maxParticles, Len(ps) - maxParticles) ELSE ps

\* "Limit particle count"
Limit(ps) ==
    IF Len(ps) > maxParticles THEN Splice(ps, 0, Len(ps) - maxParticles) ELSE ps

----------------------------------------------------------------------------
(* History bookkeeping *)

\* serial numbers for the particles pushed after the first n
Stamp(ps, n, first) ==
    [k \in 1..Len(ps) |-> IF k <= n THEN ps[k] ELSE [ps[k] EXCEPT !.id = first + (k - n) - 1]]

----------------------------------------------------------------------------
(* EvolutionCamera.  Vectors and shakeIntensity are in milli,              *)
(* shakeTime in milli, progress t in milli.                                *)

easeInOutCubic(t) ==
    IF t < 500 THEN (4 * t * t * t) \div 1000000
    ELSE LET u == 2000 - 2 * t IN 1000 - (u * u * u) \div 2000000

\* Math.pow(2, -x), x >= 0 in milli, result in micro; linear between the
\* whole powers of two
RECURSIVE Pow2(_)
Pow2(n) == IF n <= 0 THEN 1 ELSE 2 * Pow2(n - 1)

PowTwoNeg(x) ==
    LET whole == 1000000 \div Pow2(x \div 1000)
    IN (whole * (2000 - (x % 1000))) \div 2000

easeOutElastic(t) ==
    IF t = 0 THEN 0
    ELSE IF t = 1000 THEN 1000
    ELSE (PowTwoNeg(10 * t) * Sin(((10 * t - 750) * 2094) \div 1000)) \div 1000000 + 1000

lerp3(a, b, t) ==
    << a[1] + ((b[1] - a[1]) * t) \div 1000,
       a[2] + ((b[2] - a[2]) * t) \div 1000,
       a[3] + ((b[3] - a[3]) * t) \div 1000 >>

NewCamera ==
    [ defaultPosition |-> <<0, 2000, 8000>>,
      defaultTarget |-> <<0, 1000, 0>>,
      defaultUp |-> <<0, 1000, 0>>,
      position |-> <<0, 2000, 8000>>,
      target |-> <<0, 1000, 0>>,
      up |-> <<0, 1000, 0>>,
      isAnimating |-> FALSE,
      phase |-> "null",
      progress |-> 0,
      shakeIntensity |-> 0,
      shakeTime |-> 0 ]

startAnimation(cam, phase) ==
    [cam EXCEPT !.isAnimating = TRUE, !.phase = phase, !.progress = 0]

animateBuildUp(cam, t) ==
    LET eased == easeInOutCubic(t)
        distance == 8000 - eased * 2
        height == 2000 + (Sin((t * Pi) \div 1000) * 3) \div 10
    IN [cam EXCEPT !.position = <<0, height, distance>>,
                   !.target = <<0, 1000 + eased \div 5, 0>>]

animatePeak(cam, t) ==
    LET angle == (t * 4 * Pi) \div 1000
        distance == 6000
        height == 2000 + (Sin((t * Pi * 4) \div 1000) * 2) \div 5
    IN [cam EXCEPT !.position = << (Sin(angle) * distance) \div 1000,
                                   height,
                                   (Cos(angle) * distance) \div 1000 >>,
                   !.target = <<0, 1200, 0>>]

animateMorphing(cam, t) ==
    LET eased == easeInOutCubic(t)
        distance == 6000 + eased * 3
        height == 2000 + Sin((t * Pi) \div 1000) \div 2
        circleT == (t * 3) \div 10
        angle == (circleT * 2 * Pi) \div 1000
    IN [cam EXCEPT !.position = << (Sin(angle) * distance) \div 1000,
                                   height,
                                   (Cos(angle) * distance) \div 1000 >>,
                   !.target = <<0, 1000, 0>>]

animateSettling(cam, t) ==
    LET eased == easeOutElastic(t)
        from == (3 * 2 * Pi) \div 10
    IN [cam EXCEPT !.position = lerp3(<<Sin(from) * 9, 2500, Cos(from) * 9>>,
                                      cam.defaultPosition, eased),
                   !.target = lerp3(<<0, 1000, 0>>, cam.defaultTarget, eased)]

\* shakeIntensity > 0.01
Shaking(cam) == cam.shakeIntensity > 10

applyShake(cam) ==
    IF Shaking(cam)
    THEN LET st == cam.shakeTime
             shake == << ((Sin(st * 10) + Sin(st * 23)) * cam.shakeIntensity) \div 1000,
                         ((Cos(st * 13) + Cos(st * 19)) * cam.shakeIntensity) \div 1000,
                         ((Sin(st * 17) + Cos(st * 29)) * cam.shakeIntensity) \div 2000 >>
         IN [cam EXCEPT !.position = << @[1] + shake[1], @[2] + shake[2], @[3] + shake[3] >>]
    ELSE cam

\* resetToDefault that leaves the shake running
resetToDefaultKeepShake(cam) ==
    [cam EXCEPT !.position = cam.defaultPosition,
                !.target = cam.defaultTarget,
                !.up = cam.defaultUp]

\* the arrays are copied ([...this.defaultPosition]), never shared
resetToDefault(cam) ==
    [cam EXCEPT !.position = cam.defaultPosition,
                !.target = cam.defaultTarget,
                !.up = cam.defaultUp,
                !.shakeIntensity = 0]

shake(cam, intensity) ==
    [cam EXCEPT !.shakeIntensity = intensity, !.shakeTime = 0]

\* "Update shake": shakeIntensity *= 0.95
decayShake(cam, deltaTime) ==
    IF cam.shakeIntensity > 0
    THEN [cam EXCEPT !.shakeTime = @ + deltaTime * 50,
                     !.shakeIntensity = (@ * 95) \div 100]
    ELSE cam

\* the switch of update
animate(cam, phase, progress) ==
    CASE phase = "build-up" -> animateBuildUp(cam, progress)
      [] phase = "peak" -> [animatePeak(cam, progress) EXCEPT !.shakeIntensity = 150]
      [] phase = "morphing" -> animateMorphing(cam, progress)
      [] phase = "settling" -> animateSettling(cam, progress)
      [] OTHER -> resetToDefault(cam)

\* update up to the call of applyShake
posed(cam, deltaTime, phase, progress) ==
    animate(decayShake([cam EXCEPT !.phase = phase, !.progress = progress], deltaTime),
            phase, progress)

cameraUpdate(cam, deltaTime, phase, progress) ==
    applyShake(posed(cam, deltaTime, phase, progress))

----------------------------------------------------------------------------
(* Initial state and actions of ParticleSystem *)

Init ==
    /\ particles = << >>
    /\ rng \in 0..MaxSeed
    /\ nextId = 1
    /\ emits = 0
    /\ pending = 0
    /\ lastOp = "new"
    /\ lastPhase = "none"
    /\ lastCount = 0
    /\ lastDt = 0
    /\ lastExpired = 0
    /\ lastDropped = 0
    /\ camera = NewCamera
    /\ camOp = "new"
    /\ hasShaken = FALSE

\* the store becomes ps, the old store and the particles pushed after it
Emitted(ps, phase, count) ==
    LET n == Len(particles)
    IN /\ emits < MaxEmits
       /\ lastPhase' = phase
       /\ lastCount' = count
       /\ particles' = Stamp(ps, n, nextId)
       /\ nextId' = nextId + (Len(ps) - n)
       /\ pending' = pending + (Len(ps) - n)
       /\ rng' = rng + Draws(ps, n)
       /\ emits' = emits + 1
       /\ lastOp' = "emit"
       /\ UNCHANGED <<lastDt, lastExpired, lastDropped, cvars>>

EmitEvolutionParticles(centers, counts) ==
    \E phase \in PhaseArgs, center \in centers, count \in counts :
        Emitted(emitEvolutionParticles(particles, phase, center, count, rng), phase, count)

EmitExplosion ==
    \E center \in {Origin}, count \in BurstCounts :
        Emitted(emitExplosion(particles, center, 2 * count, rng), "none", count)

Update(dts) ==
    \E dt \in dts :
        \E culled \in {UpdateParticles(particles, dt)} :
        \E kept \in {Limit(culled)} :
           /\ particles' = kept
           /\ lastExpired' = Len(particles) - Len(culled)
           /\ lastDropped' = Len(culled) - Len(kept)
           /\ lastDt' = dt
           /\ lastOp' = "update"
           /\ pending' = 0
           /\ lastPhase' = "none"
           /\ lastCount' = 0
           /\ UNCHANGED <<rng, nextId, emits, cvars>>

Clear ==
    /\ particles' = << >>
    /\ lastOp' = "clear"
    /\ pending' = 0
    /\ lastPhase' = "none"
    /\ lastCount' = 0
    /\ UNCHANGED <<rng, nextId, emits, lastDt, lastExpired, lastDropped, cvars>>

getCount == Len(particles)

\* small emissions
Next == EmitEvolutionParticles(Centers, Counts) \/ EmitExplosion \/ Update(DtVals) \/ Clear

Spec == Init /\ [][Next]_vars

\* emissions that overflow the store
NextBig == EmitEvolutionParticles({Origin}, BigCounts) \/ Update(BigDts) \/ Clear

OverflowSpec == Init /\ [][NextBig]_vars

\* update keeps being called with a positive deltaTime (the animation loop)
LiveSpec == Init /\ [][Next]_vars /\ WF_vars(Update(FrameDts))

----------------------------------------------------------------------------
(* Actions of EvolutionCamera *)

StartAnimation ==
    \E phase \in PhaseArgs :
        /\ camera' = startAnimation(camera, phase)
        /\ camOp' = "start"
        /\ UNCHANGED <<hasShaken, pvars>>

Shake ==
    \E intensity \in ShakeArgs :
        /\ camera' = shake(camera, intensity)
        /\ camOp' = "shake"
        /\ UNCHANGED <<hasShaken, pvars>>

CameraUpdate ==
    \E deltaTime \in CamDts, phase \in PhaseArgs, progress \in Progresses :
        /\ camera.shakeTime + deltaTime * 50 <= MaxShakeTime
        /\ camera' = cameraUpdate(camera, deltaTime, phase, progress)
        /\ camOp' = "update"
        /\ hasShaken' = (hasShaken \/ Shaking(posed(camera, deltaTime, phase, progress)))
        /\ UNCHANGED pvars

CameraNext == StartAnimation \/ Shake \/ CameraUpdate

CameraSpec == Init /\ [][CameraNext]_vars

----------------------------------------------------------------------------
(* Properties *)

Ids(ps) == {ps[k].id : k \in 1..Len(ps)}

\* the particles of ps that an update by dt leaves alive
Survivors(ps, dt) == SelectSeq(ps, LAMBDA p : p.life > p.decay * dt)

\* C1: right after every update call the particle count is at most
\* maxParticles, whatever was emitted before it.
C1_CountAfterUpdate == lastOp = "update" => getCount <= maxParticles

\* an update whose limit step dropped entries and left a full store
C1_Witness == lastOp = "update" /\ lastDropped > 0 /\ getCount = maxParticles

\* C2 as stated: the store size is at most maxParticles in every reachable
\* state, the states between an emit and the next update included.
C2_Original == Len(particles) <= maxParticles

\* C2 as amended: the store size is at most maxParticles right after
\* construction, update and clear; after an emit it exceeds maxParticles by
\* at most the number of particles pushed since the last update or clear.
C2_SizeBound ==
    /\ Len(particles) <= maxParticles + pending
    /\ lastOp \in {"new", "update", "clear"} => Len(particles) <= maxParticles

\* a store above the maximum after an emit
C2_Witness == lastOp = "emit" /\ Len(particles) > maxParticles /\ pending < Len(particles)

\* C3: an update leaves no particle with life <= 0, and every particle whose
\* life reaches <= 0 in that update is gone after it (none is skipped).
C3_ExpiredRemoved ==
    [][ lastOp' = "update" =>
          /\ \A k \in 1..Len(particles') : particles'[k].life > 0
          /\ \A k \in 1..Len(particles) :
                particles[k].life <= particles[k].decay * lastDt'
                    => particles[k].id \notin Ids(particles') ]_vars

\* an update that removed several particles, some of them between two
\* survivors and one of them with life exactly 0 (helix, decay 0.8, dt 1.25)
C3_Witness ==
    /\ lastOp = "update" /\ lastDt = 1250 /\ lastExpired >= 3
    /\ \E k \in 1..(Len(particles) - 1) : particles[k + 1].id > particles[k].id + 1

\* C4: when the store is still above maxParticles after the expired
\* particles are removed, update drops exactly the oldest excess entries and
\* keeps the maxParticles newest survivors in their order.
C4_OldestDropped ==
    [][ (lastOp' = "update" /\ lastDropped' > 0) =>
          LET surv == Survivors(particles, lastDt')
          IN /\ Len(particles') = maxParticles
             /\ lastDropped' = Len(surv) - maxParticles
             /\ \A k \in 1..maxParticles :
                    particles'[k].id = surv[k + lastDropped'].id ]_vars

\* an update that removed expired particles and then dropped the excess
C4_Witness == lastOp = "update" /\ lastDropped > 0 /\ lastExpired > 0

\* C5: the life of a particle never rises: a particle that is in the store
\* before and after a step has a life no larger than before, and a particle
\* new in the store was just emitted with life 1.0.
C5_LifeNonIncreasing ==
    [][ \A k \in 1..Len(particles') :
          LET q == particles'[k]
          IN IF q.id \in Ids(particles)
             THEN \A j \in 1..Len(particles) :
                      particles[j].id = q.id => q.life <= particles[j].life
             ELSE lastOp' = "emit" /\ q.life = 1000000 ]_vars

\* a store holding a particle that two updates have aged, next to a fresh one
C5_Witness ==
    /\ lastOp = "update" /\ lastDt > 0
    /\ \E k \in 1..Len(particles) : particles[k].life < 400000
    /\ \E k \in 1..Len(particles) : particles[k].life > 400000

\* C6: update(0) on a store of at most maxParticles particles removes
\* nothing and leaves every position, velocity and life as it was.
C6_ZeroDelta ==
    [][ (lastOp' = "update" /\ lastDt' = 0 /\ Len(particles) <= maxParticles) =>
          /\ Len(particles') = Len(particles)
          /\ \A k \in 1..Len(particles) :
                /\ particles'[k].id = particles[k].id
                /\ particles'[k].position = particles[k].position
                /\ particles'[k].velocity = particles[k].velocity
                /\ particles'[k].life = particles[k].life ]_vars

\* ten burst particles emitted at the origin, then update(0)
C6_Witness ==
    /\ lastOp = "update" /\ lastDt = 0 /\ getCount = 10
    /\ \A k \in 1..Len(particles) :
          /\ particles[k].type = "burst"
          /\ particles[k].position = Origin
          /\ particles[k].life = 1000000

\* the types of the particles of ps after the first n
NewTypes(ps, n) == [k \in 1..(Len(ps) - n) |-> ps[n + k].type]

\* C7 as stated: an emit grows the store by count ('build-up', 'morphing'),
\* 3 * count + 30 ('peak') or count / 2 ('settling'), by nothing otherwise.
C7_Original ==
    [][ (lastOp' = "emit" /\ lastPhase' # "none") =>
          LET grown == Len(particles') - Len(particles)
          IN CASE lastPhase' \in {"build-up", "morphing"} -> grown = lastCount'
               [] lastPhase' = "peak" -> grown = 3 * lastCount' + 30
               [] lastPhase' = "settling" -> 2 * grown = lastCount'
               [] OTHER -> grown = 0 ]_vars

\* C7 as amended: for 'settling' the store grows by count / 2 rounded up;
\* the rest as stated.  The particles already stored stay, in their order,
\* and the new ones follow them with the types of the phase.
C7_Growth ==
    [][ (lastOp' = "emit" /\ lastPhase' # "none") =>
          LET n == Len(particles)
              grown == Len(particles') - n
              types == NewTypes(particles', n)
          IN /\ grown >= 0
             /\ SubSeq(particles', 1, n) = particles
             /\ CASE lastPhase' = "build-up" ->
                        grown = lastCount' /\ \A k \in 1..grown : types[k] = "sparkle"
                  [] lastPhase' = "morphing" ->
                        grown = lastCount' /\ \A k \in 1..grown : types[k] = "orb"
                  [] lastPhase' = "peak" ->
                        /\ grown = 3 * lastCount' + 30
                        /\ \A k \in 1..grown :
                              types[k] = IF k <= 3 * lastCount' THEN "burst" ELSE "helix"
                  [] lastPhase' = "settling" ->
                        /\ grown = (lastCount' + 1) \div 2
                        /\ \A k \in 1..grown : types[k] = "settle"
                  [] OTHER -> grown = 0 ]_vars

\* a 'settling' emit with an odd count into a store that held particles
C7_Witness ==
    /\ lastOp = "emit" /\ lastPhase = "settling" /\ lastCount = 3
    /\ pending = 2 /\ Len(particles) > 2 /\ lastExpired > 0

\* C8 as stated: once the peak has triggered the shake, every further
\* update, those still in the peak phase included, lowers the intensity.
C8_Original ==
    [][ (camOp = "update" /\ camera.phase = "peak" /\ camOp' = "update") =>
          camera'.shakeIntensity < camera.shakeIntensity ]_vars

\* C9: after an update with a phase that is none of the four evolution
\* phases the camera is exactly at its default pose with the shake cleared,
\* and the default pose itself never changes.
C9_DefaultPose ==
    /\ camera.defaultPosition = <<0, 2000, 8000>>
    /\ camera.defaultTarget = <<0, 1000, 0>>
    /\ camera.defaultUp = <<0, 1000, 0>>
    /\ (camOp = "update" /\ camera.phase \notin EvolutionPhases) =>
          /\ camera.position = <<0, 2000, 8000>>
          /\ camera.target = <<0, 1000, 0>>
          /\ camera.up = <<0, 1000, 0>>
          /\ camera.shakeIntensity = 0

\* an update outside the phases after updates that shook the camera
C9_Witness ==
    /\ camOp = "update" /\ camera.phase = "idle" /\ hasShaken
    /\ camera.shakeTime > 0 /\ camera.position = camera.defaultPosition

====
